---- MODULE Spec2Model ----
(***************************************************************************)
(* Model of eww-notifier's notification store                              *)
(* (src/eww_notifier/notification_queue/notification_queue.py):            *)
(* the in-memory list, the snapshot file, the publish gate, the reaper     *)
(* thread and the clock, and of the ids the ingestion layer gives to       *)
(* records (src/eww_notifier/notifier/notification_processor.py).          *)
(*                                                                         *)
(* Time is counted in whole seconds.  expire_timeout is in milliseconds,   *)
(* as in the code, and the code's comparison                               *)
(*     current_time - timestamp <= expire_timeout / 1000                   *)
(* is written (t - timestamp) * 1000 <= expire_timeout, which is the same  *)
(* comparison without the division.                                        *)
(*                                                                         *)
(* The three tunables are read from the environment in config.py; the      *)
(* model runs the configuration EWW_MAX_NOTIFICATIONS=2,                   *)
(* EWW_DEFAULT_TIMEOUT=2000, EWW_UPDATE_COOLDOWN=2.                        *)
(***************************************************************************)
EXTENDS Integers, Sequences, FiniteSets, TLC

\* ---------------------------------------------------------------- config.py
MAX_NOTIFICATIONS == 2
DEFAULT_TIMEOUT == 2000
UPDATE_COOLDOWN == 2
\* the image cache runs EWW_SPOTIFY_CACHE_MAX_SIZE=2 (bytes) and
\* EWW_SPOTIFY_CACHE_MAX_AGE=1 (seconds)
SPOTIFY_CACHE_MAX_SIZE == 2
SPOTIFY_CACHE_MAX_AGE == 1
URGENCY_LEVELS == (0 :> "low") @@ (1 :> "normal") @@ (2 :> "critical")

\* ------------------------------------------------------------------ bounds
\* the clock runs from StartTime to MaxTime; time.time() is far beyond the
\* cooldown when the process starts
StartTime == UPDATE_COOLDOWN
MaxTime == 4
\* a caller that supplies a timestamp supplies one PastOffset seconds back
PastOffset == 2
MaxId == 1
\* ids are generated while the processor's counter is at most MaxCounter
MaxCounter == 3
\* a snapshot file found at startup holds a list of at most MaxFileLen elements
MaxFileLen == 2

\* retry_on_error is applied with max_retries up to MaxRetries, a delay of
\* up to MaxDelay seconds and a backoff of up to MaxBackoff
MaxRetries == 3
MaxDelay == 2
MaxBackoff == 3

\* the image URLs a notification can carry
MaxUrl == 2
\* an integer urgency hint lies between 0 and MaxUrgency
MaxUrgency == 3
\* a notification carries a flat list of at most MaxActions action strings
MaxActions == 4
\* the width of an id and of the id counter, 32 in the code
IdBits == 4
\* the texts (app name, summary, body) a notification can carry
MaxText == 7

Ids == 1..MaxId
\* one id more, for the runs in which records of different ids meet
WideIds == 1..(MaxId + 1)
Timeouts == {1000}

\* a key that is not in the dict handed to add_notification
Absent == -1
\* get_notification's None
None == [notification_id |-> 0, timestamp |-> 0, expire_timeout |-> 0]
\* the snapshot file does not exist
NoFile == [kind |-> "absent", data |-> <<>>]
\* json.dump of a list of records into the snapshot file
JsonFile(s) == [kind |-> "list", data |-> s]
\* snapshot files that json.load cannot read, one of zero bytes and one that
\* is not JSON, and one holding a JSON value that is not a list
EmptyFile == [kind |-> "empty", data |-> <<>>]
InvalidFile == [kind |-> "invalid", data |-> <<>>]
NotListFile == [kind |-> "notlist", data |-> <<>>]
\* an element of a JSON list that is not an object
NotADict == -2
Junk == [notification_id |-> NotADict, timestamp |-> NotADict, expire_timeout |-> NotADict]

VARIABLES
  notifications,   \* self.notifications, most recently inserted first
  last_update,     \* self.last_update
  cache_file,      \* content of NOTIFICATION_FILE, or NoFile
  now,             \* time.time()
  reaper_wake,     \* the time at which the reaper's sleep(1) ends
  dirty,           \* the collection changed after the last `eww update` invocation
  lastOp,          \* the operation that ran last
  arg,             \* the id it was called with, 0 when it takes none
  ret,             \* its return value
  trimmed,         \* the records it dropped for capacity
  io,              \* "none": it did not save, "ok": it saved, "fail": the save raised
  pub,             \* it invoked the publisher
  removed,         \* the number of records it deleted by id, by clearing or by expiry
  notification_id_counter,  \* NotificationProcessor.notification_id_counter
  pc,              \* the line the reaper thread is at, "sleep" in time.sleep(1)
  current_time,    \* the reaper's local current_time in should_update
  invoked,         \* the times of the last two `eww update` invocations
  album_art_cache, \* AlbumArtHandler.album_art_cache, URL to file path
  album_art_dir,   \* the files of SPOTIFY_ALBUM_ART_DIR, path to mtime and size
  url_cache_json,  \* the table saved in SPOTIFY_CACHE_DIR/url_cache.json
  fetched,         \* the number of requests.get calls the last operation made
  first_ok,        \* the first attempt the server would answer, 0 when none
  evicted,         \* the files the last operation unlinked, for age and for size
  sweep,           \* the reaper inside the list comprehension of line 161
  temp_file,       \* content of NOTIFICATION_TEMP_FILE, or NoFile
  writers,         \* the threads inside _save_notifications, each with its position
  wrapper          \* a call of a function decorated with retry_on_error

opVars == <<lastOp, arg, ret, trimmed, io, pub, removed>>
\* the state of the ingestion layer and of the reaper thread inside a call
stepVars == <<notification_id_counter, pc, current_time, invoked>>
\* the image cache and what the last operation on it did
imageVars == <<album_art_cache, album_art_dir, url_cache_json,
               fetched, first_ok, evicted>>
\* the two threads inside the sweep's comprehension and inside a save
raceVars == <<sweep, temp_file, writers>>
retryVars == <<wrapper>>
vars == <<notifications, last_update, cache_file, now, reaper_wake, dirty,
          lastOp, arg, ret, trimmed, io, pub, removed,
          notification_id_counter, pc, current_time, invoked,
          album_art_cache, album_art_dir, url_cache_json,
          fetched, first_ok, evicted, sweep, temp_file, writers, wrapper>>

\* ----------------------------------------------------------------- helpers
\* the slice one record too long
Head_n_long(s, k) == SubSeq(s, 1, IF Len(s) < k + 1 THEN Len(s) ELSE k + 1)
Head_n(s, k) == SubSeq(s, 1, IF Len(s) < k THEN Len(s) ELSE k)
Tail_n(s, k) == SubSeq(s, k + 1, Len(s))

\* The state a method of NotificationQueue works on, threaded through the
\* calls it makes.
Self(n, lu, cf) ==
  [notifications |-> n, last_update |-> lu, cache_file |-> cf,
   trimmed |-> <<>>, io |-> "none", pub |-> FALSE, removed |-> 0]

\* the sweep that drops a record at the very end of its lifetime
NotExpired_strict(n, t) == (t - n.timestamp) * 1000 < n.expire_timeout
\* the sweep without the conversion of milliseconds to seconds
NotExpired_ms(n, t) == t - n.timestamp <= n.expire_timeout
\* line 164: the record is kept by the expiry sweep at time t
NotExpired(n, t) == (t - n.timestamp) * 1000 <= n.expire_timeout

\* the gate that stores the time of every call
should_update_stamps(self, t) ==
  [ret |-> t - self.last_update >= UPDATE_COOLDOWN,
   self |-> [self EXCEPT !.last_update = t]]
\* should_update, lines 274-284
should_update(self, t) ==
  IF t - self.last_update >= UPDATE_COOLDOWN
  THEN [ret |-> TRUE, self |-> [self EXCEPT !.last_update = t]]
  ELSE [ret |-> FALSE, self |-> self]

\* update_eww_widget, lines 286-319: one `eww update` with the whole list
\* when the gate lets it through; a failing command is logged only.
update_eww_widget(self, t) ==
  LET g == should_update(self, t) IN
  IF ~g.ret THEN g.self
  ELSE [g.self EXCEPT !.pub = TRUE]

\* _save_notifications, lines 128-149: trim, write the temporary file, rename
\* it over the snapshot; ok = FALSE is an I/O error, which is logged.
_save_notifications(self, ok) ==
  LET cut == [self EXCEPT !.notifications = Head_n(self.notifications, MAX_NOTIFICATIONS),
                          !.trimmed = self.trimmed \o Tail_n(self.notifications, MAX_NOTIFICATIONS)]
  IN IF ok THEN [cut EXCEPT !.cache_file = JsonFile(cut.notifications), !.io = "ok"]
           ELSE [cut EXCEPT !.io = "fail"]

\* a sweep that is undone, and not published, when its save fails
_cleanup_old_notifications_abort(self, t, ok) ==
  LET kept == SelectSeq(self.notifications, LAMBDA n : NotExpired(n, t))
      swept == [self EXCEPT !.notifications = kept,
                            !.removed = @ + Len(self.notifications) - Len(kept)]
  IN IF Len(kept) < Len(self.notifications)
     THEN IF ok THEN update_eww_widget(_save_notifications(swept, ok), t)
          ELSE [self EXCEPT !.io = "fail"]
     ELSE swept
\* _cleanup_old_notifications, lines 151-188
_cleanup_old_notifications(self, t, ok) ==
  LET kept == SelectSeq(self.notifications, LAMBDA n : NotExpired(n, t))
      swept == [self EXCEPT !.notifications = kept,
                            !.removed = @ + Len(self.notifications) - Len(kept)]
  IN IF Len(kept) < Len(self.notifications)
     THEN update_eww_widget(_save_notifications(swept, ok), t)
     ELSE IF Len(kept) > MAX_NOTIFICATIONS
          THEN update_eww_widget(
                 _save_notifications(
                   [swept EXCEPT !.notifications = Head_n(kept, MAX_NOTIFICATIONS),
                                 !.trimmed = self.trimmed \o Tail_n(kept, MAX_NOTIFICATIONS)],
                   ok), t)
          ELSE swept

\* the trim of add_notification, lines 211-214
TrimAfterInsert(self) ==
  IF Len(self.notifications) > MAX_NOTIFICATIONS
  THEN [self EXCEPT !.notifications = Head_n(self.notifications, MAX_NOTIFICATIONS),
                    !.trimmed = self.trimmed \o Tail_n(self.notifications, MAX_NOTIFICATIONS)]
  ELSE self

\* lines 200-206: the defaults of add_notification
WithDefaults(n, t) ==
  [n EXCEPT !.timestamp = IF @ = Absent THEN t ELSE @,
            !.expire_timeout = IF @ = Absent THEN DEFAULT_TIMEOUT ELSE @]

\* add_notification, lines 190-222
add_notification(self, n, t, ok) ==
  LET inserted == [self EXCEPT !.notifications = <<WithDefaults(n, t)>> \o self.notifications]
  IN update_eww_widget(_cleanup_old_notifications(TrimAfterInsert(inserted), t, ok), t)

\* a removal that stops at the first record of that id
remove_notification_first(self, id, t, ok) ==
  LET hit == {i \in 1..Len(self.notifications) : self.notifications[i].notification_id = id}
      k == CHOOSE i \in hit : \A j \in hit : i <= j
  IN IF hit = {} THEN self
     ELSE update_eww_widget(
            _save_notifications(
              [self EXCEPT !.notifications = SubSeq(self.notifications, 1, k - 1)
                                               \o SubSeq(self.notifications, k + 1, Len(self.notifications)),
                           !.removed = @ + 1],
              ok), t)
\* a removal that saves and publishes whether or not it deleted a record
remove_notification_eager(self, id, t, ok) ==
  LET rest == SelectSeq(self.notifications, LAMBDA n : n.notification_id # id)
  IN update_eww_widget(
       _save_notifications(
         [self EXCEPT !.notifications = rest,
                      !.removed = @ + Len(self.notifications) - Len(rest)],
         ok), t)
\* a removal that compares a key the records do not have, so that no record
\* matches
remove_notification_miss(self, id, t, ok) == self
\* remove_notification, lines 224-241
remove_notification(self, id, t, ok) ==
  LET rest == SelectSeq(self.notifications, LAMBDA n : n.notification_id # id)
  IN IF Len(rest) < Len(self.notifications)
     THEN update_eww_widget(
            _save_notifications(
              [self EXCEPT !.notifications = rest,
                           !.removed = @ + Len(self.notifications) - Len(rest)],
              ok), t)
     ELSE [self EXCEPT !.notifications = rest]

\* a clear that saves but asks for no publish
clear_silent(self, t, ok) ==
  _save_notifications(
    [self EXCEPT !.notifications = <<>>, !.removed = @ + Len(self.notifications)],
    ok)
\* clear, lines 260-272
clear(self, t, ok) ==
  update_eww_widget(
    _save_notifications(
      [self EXCEPT !.notifications = <<>>, !.removed = @ + Len(self.notifications)],
      ok), t)

\* a List that publishes what it returns
get_notifications_publish(self, t, ok) ==
  update_eww_widget(_cleanup_old_notifications(self, t, ok), t)
\* get_notifications, lines 243-258
get_notifications(self, t, ok) == _cleanup_old_notifications(self, t, ok)

\* get_notification, lines 321-340
get_notification(self, id) ==
  LET hits == SelectSeq(self.notifications, LAMBDA n : n.notification_id = id)
  IN IF hits = <<>> THEN None ELSE Head(hits)

\* sorted(..., key=timestamp, reverse=True), line 113: stable, so records of
\* equal timestamp keep their order
RECURSIVE SortByTimestampDesc(_)
SortByTimestampDesc(s) ==
  IF s = <<>> THEN <<>>
  ELSE LET m == CHOOSE x \in {s[i].timestamp : i \in 1..Len(s)} :
                  \A i \in 1..Len(s) : s[i].timestamp <= x
       IN SelectSeq(s, LAMBDA n : n.timestamp = m)
            \o SortByTimestampDesc(SelectSeq(s, LAMBDA n : n.timestamp # m))

\* line 93: isinstance(n, dict)
IsDict(n) == n.notification_id # NotADict

\* lines 98-103: the fields _load_notifications fills in
Backfill(n, t) ==
  [notification_id |-> n.notification_id,
   timestamp |-> IF n.timestamp = Absent THEN t ELSE n.timestamp,
   expire_timeout |-> IF n.expire_timeout = Absent THEN DEFAULT_TIMEOUT ELSE n.expire_timeout]

\* _load_notifications, lines 68-126: the list it returns.  A missing file
\* (line 78), a file json.load rejects (line 121) and a value that is not a
\* list (line 85) give [].
_load_notifications(cf, t) ==
  IF cf.kind # "list" THEN <<>>
  ELSE LET dicts == SelectSeq(cf.data, IsDict)
           filled == [i \in 1..Len(dicts) |-> Backfill(dicts[i], t)]
           valid == SelectSeq(filled, LAMBDA n : ~((t - n.timestamp) * 1000 > n.expire_timeout))
       IN Head_n(SortByTimestampDesc(valid), MAX_NOTIFICATIONS)

\* ------------------------------------------------------------------- state
\* no URL resolved yet: an empty table, an empty directory, no saved table
NoMap == [u \in {} |-> 0]
InitImage ==
  /\ album_art_cache = NoMap
  /\ album_art_dir = NoMap
  /\ url_cache_json = NoMap
  /\ fetched = 0
  /\ first_ok = 0
  /\ evicted = [age |-> {}, size |-> <<>>]

\* the reaper asleep, no save under way
NoSweep == [list |-> <<>>, i |-> 0, out |-> <<>>, shared |-> FALSE, initial_count |-> 0]
\* the two threads that call _save_notifications
SaveThreads == {"inbound", "reaper"}
\* a thread outside _save_notifications
NoWriter == [pc |-> "idle", buf |-> <<>>, fd |-> "none"]
InitRace ==
  /\ sweep = NoSweep
  /\ temp_file = NoFile
  /\ writers = [th \in SaveThreads |-> NoWriter]

\* no exception caught, no result
NoException == [kind |-> "none", call |-> 0]
\* the wrapper of retry_on_error before it is called
NoCall ==
  [pc |-> "idle", max_retries |-> 0, delay |-> 0, backoff |-> 0,
   attempt |-> 0, current_delay |-> 0, last_exception |-> NoException,
   calls |-> <<>>, slept |-> <<>>, outcome |-> "none", value |-> NoException]
InitRetry == wrapper = NoCall

Init ==
  /\ notifications = <<>>
  /\ last_update = 0
  /\ cache_file = NoFile
  /\ now = StartTime
  /\ reaper_wake = StartTime + 1
  /\ dirty = FALSE
  /\ lastOp = "construct"
  /\ arg = 0
  /\ ret = <<>>
  /\ trimmed = <<>>
  /\ io = "none"
  /\ pub = FALSE
  /\ removed = 0
  /\ notification_id_counter = 1
  /\ pc = "sleep"
  /\ current_time = 0
  /\ invoked = <<>>
  /\ InitImage
  /\ InitRace
  /\ InitRetry

\* what every operation of the store leaves behind
Store(op, a, r, self) ==
  /\ notifications' = self.notifications
  /\ last_update' = self.last_update
  /\ cache_file' = self.cache_file
  /\ dirty' = IF self.pub THEN FALSE
              ELSE IF self.notifications # notifications THEN TRUE ELSE dirty
  /\ lastOp' = op
  /\ arg' = a
  /\ ret' = r
  /\ trimmed' = self.trimmed
  /\ io' = self.io
  /\ pub' = self.pub
  /\ removed' = self.removed
  /\ UNCHANGED <<imageVars, retryVars>>

\* an operation of the store run from start to end, the reaper thread being
\* asleep
Commit(op, a, r, self) ==
  /\ Store(op, a, r, self)
  /\ UNCHANGED <<stepVars, raceVars>>

Current == Self(notifications, last_update, cache_file)

AddArgs ==
  [notification_id : Ids,
   timestamp : {Absent} \cup (IF now >= PastOffset THEN {now - PastOffset} ELSE {}),
   expire_timeout : {Absent} \cup Timeouts]

\* In the actions below, io is the set of outcomes the snapshot write may
\* have: TRUE it succeeds, FALSE it raises.
AddIo(io_outcomes) ==
  \E n \in AddArgs, ok \in io_outcomes :
    /\ Commit("add", n.notification_id, <<>>, add_notification(Current, n, now, ok))
    /\ UNCHANGED <<now, reaper_wake>>

RemoveIo(io_outcomes) ==
  \E id \in Ids, ok \in io_outcomes :
    /\ Commit("remove", id, <<>>,
              remove_notification(Current, id, now, ok))
    /\ UNCHANGED <<now, reaper_wake>>

ClearIo(io_outcomes) ==
  \E ok \in io_outcomes :
    /\ Commit("clear", 0, <<>>, clear(Current, now, ok))
    /\ UNCHANGED <<now, reaper_wake>>

ListIo(io_outcomes) ==
  \E ok \in io_outcomes :
    LET self == get_notifications(Current, now, ok) IN
    /\ Commit("list", 0, self.notifications, self)
    /\ UNCHANGED <<now, reaper_wake>>

Get ==
  \E id \in Ids :
    /\ Commit("get", id,
              <<get_notification(Current, id)>>, Current)
    /\ UNCHANGED <<now, reaper_wake>>

ShouldUpdate ==
  LET g == should_update(Current, now) IN
    /\ Commit("should_update", 0, <<g.ret>>, g.self)
    /\ UNCHANGED <<now, reaper_wake>>

\* a reaper that publishes and does not sweep
_periodic_cleanup_idle(self, t, ok) ==
  IF self.notifications # <<>> THEN update_eww_widget(self, t) ELSE self
\* one round of _periodic_cleanup, lines 57-66
_periodic_cleanup(self, t, ok) ==
  LET swept == _cleanup_old_notifications(self, t, ok)
  IN IF swept.notifications # <<>> THEN update_eww_widget(swept, t) ELSE swept

ReaperTickIo(io_outcomes) ==
  /\ now >= reaper_wake
  /\ \E ok \in io_outcomes :
       Commit("reaper", 0, <<>>, _periodic_cleanup(Current, now, ok))
  /\ reaper_wake' = now + 1
  /\ UNCHANGED now

\* __init__, lines 35-55, of a process started over the snapshot file the
\* previous one left
ConstructIo(io_outcomes) ==
  LET loaded == _load_notifications(cache_file, now)
      fresh == Self(<<>>, 0, cache_file)
  IN /\ \E ok \in io_outcomes :
          Commit("construct", 0, loaded, _cleanup_old_notifications(fresh, now, ok))
     /\ reaper_wake' = now + 1
     /\ UNCHANGED now

\* the clock
Tick ==
  /\ now < MaxTime
  /\ now' = now + 1
  /\ UNCHANGED <<notifications, last_update, cache_file, reaper_wake, dirty>>
  /\ lastOp' = "tick"
  /\ arg' = 0
  /\ ret' = <<>>
  /\ trimmed' = <<>>
  /\ io' = "none"
  /\ pub' = FALSE
  /\ removed' = 0
  /\ UNCHANGED stepVars
  /\ UNCHANGED <<imageVars, retryVars, raceVars>>

Add == AddIo(BOOLEAN)
Remove == RemoveIo(BOOLEAN)
Clear == ClearIo(BOOLEAN)
List == ListIo(BOOLEAN)
ReaperTick == ReaperTickIo(BOOLEAN)
Construct == ConstructIo(BOOLEAN)

Next ==
  \/ Add
  \/ Remove
  \/ Clear
  \/ List
  \/ Get
  \/ ShouldUpdate
  \/ ReaperTick
  \/ Construct
  \/ Tick

Spec == Init /\ [][Next]_vars

\* One run of the process, from its start on, on a file system that never
\* fails.
AddOk == AddIo({TRUE})
RemoveOk == RemoveIo({TRUE})
ClearOk == ClearIo({TRUE})
ListOk == ListIo({TRUE})
ReaperTickOk == ReaperTickIo({TRUE})

NextIoOk ==
  \/ AddOk
  \/ RemoveOk
  \/ ClearOk
  \/ ListOk
  \/ Get
  \/ ShouldUpdate
  \/ ReaperTickOk
  \/ Tick

SpecIoOk == Init /\ [][NextIoOk]_vars

\* Save, reload and enforce one collection at one instant: Load(Save(S)) is
\* left in ret, EnforceInvariants(S) in notifications.
RoundTrip ==
  LET saved == _save_notifications(Current, TRUE)
      loaded == _load_notifications(saved.cache_file, now)
      enforced == _cleanup_old_notifications(Current, now, TRUE)
  IN /\ Commit("roundtrip", 0, loaded, [enforced EXCEPT !.cache_file = saved.cache_file])
     /\ UNCHANGED <<now, reaper_wake>>

NextRT ==
  \/ AddOk
  \/ Tick
  \/ RoundTrip

SpecRT == Init /\ [][NextRT]_vars

\* The store with records of several ids: add_notification with the defaults
\* or a supplied timeout, remove_notification and get_notification over
\* WideIds.
AddWide ==
  \E id \in WideIds, e \in {Absent} \cup Timeouts :
    /\ Commit("add", id, <<>>,
              add_notification(Current,
                               [notification_id |-> id, timestamp |-> Absent,
                                expire_timeout |-> e],
                               now, TRUE))
    /\ UNCHANGED <<now, reaper_wake>>

RemoveWide ==
  \E id \in WideIds, ok \in BOOLEAN :
    /\ Commit("remove", id, <<>>, remove_notification(Current, id, now, ok))
    /\ UNCHANGED <<now, reaper_wake>>

GetWide ==
  \E id \in WideIds :
    /\ Commit("get", id, <<get_notification(Current, id)>>, Current)
    /\ UNCHANGED <<now, reaper_wake>>

NextWide ==
  \/ AddWide
  \/ RemoveWide
  \/ GetWide
  \/ Tick

SpecWide == Init /\ [][NextWide]_vars

\* The store started over whatever the snapshot path holds.
FileElems ==
  [notification_id : Ids,
   timestamp : {Absent, 0, StartTime},
   expire_timeout : {Absent} \cup Timeouts] \cup {Junk}

SnapshotFiles ==
  {NoFile, EmptyFile, InvalidFile, NotListFile}
    \cup {JsonFile(s) : s \in UNION {[1..k -> FileElems] : k \in 0..MaxFileLen}}

InitLoad ==
  /\ cache_file \in SnapshotFiles
  /\ notifications = <<>>
  /\ last_update = 0
  /\ now = StartTime
  /\ reaper_wake = StartTime + 1
  /\ dirty = FALSE
  /\ lastOp = "construct"
  /\ arg = 0
  /\ ret = _load_notifications(cache_file, StartTime)
  /\ trimmed = <<>>
  /\ io = "none"
  /\ pub = FALSE
  /\ removed = 0
  /\ notification_id_counter = 1
  /\ pc = "sleep"
  /\ current_time = 0
  /\ invoked = <<>>
  /\ InitImage
  /\ InitRace
  /\ InitRetry

NextLoad ==
  \/ Construct
  \/ Tick

SpecLoad == InitLoad /\ [][NextLoad]_vars

\* ------------------------------------------------ notification_processor.py
\* generate_notification_id, lines 52-85: the first four bytes of the md5 of
\* app_name, summary, body and the counter, and the counter moved on.  Digest
\* stands for the hash: different counters give different ids (a collision
\* of the 32-bit values is left out), and the counter's reset at 4294967295
\* lies beyond MaxCounter.
Digest(counter) == MaxCounter + 1 - counter
generate_notification_id(counter) ==
  [id |-> Digest(counter), counter |-> counter + 1]

\* process_notification_data, lines 122-140: the record's id, timestamp and
\* expire_timeout, and the counter it leaves
process_notification_data(replaces_id, expire_timeout, counter, t) ==
  LET g == generate_notification_id(counter)
      notif_id == IF replaces_id # 0 THEN replaces_id ELSE g.id
  IN [notification |->
        [notification_id |-> notif_id,
         timestamp |-> t,
         expire_timeout |-> IF expire_timeout > 0 THEN expire_timeout ELSE DEFAULT_TIMEOUT],
      counter |-> IF replaces_id # 0 THEN counter ELSE g.counter]

\* the replaces_id of a Notify call: 0 for none, or the id of a notification
\* sent before
ReplacesIds == {0} \cup {Digest(c) : c \in 1..MaxId}

\* Notify: the record is built and handed to add_notification; the id is
\* returned
Notify ==
  \E replaces_id \in ReplacesIds, expire_timeout \in {-1} \cup Timeouts, ok \in BOOLEAN :
    LET p == process_notification_data(replaces_id, expire_timeout,
                                       notification_id_counter, now)
    IN /\ replaces_id = 0 => notification_id_counter <= MaxCounter
       /\ Store("notify", p.notification.notification_id,
                <<p.notification.notification_id>>,
                add_notification(Current, p.notification, now, ok))
       /\ notification_id_counter' = p.counter
       /\ UNCHANGED <<now, reaper_wake, pc, current_time, invoked, raceVars>>

NextNotify ==
  \/ Notify
  \/ List
  \/ Tick

SpecNotify == Init /\ [][NextNotify]_vars

\* --------------------------------------- notifier/notification_handler.py
\* NotificationHandler builds its records under the key 'id'; the store
\* looks records up with n.get('notification_id'), which gives None for
\* them.  A record of the handler carries both: its id, and NoKey for what
\* the store reads.
NoKey == -3

\* Notify, lines 59-112: the id is replaces_id or a generated one, the record
\* goes to add_notification (lines 264-267) and the id is returned
HandlerNotify ==
  \E replaces_id \in ReplacesIds, expire_timeout \in {-1} \cup Timeouts, ok \in BOOLEAN :
    LET g == generate_notification_id(notification_id_counter)
        notif_id == IF replaces_id # 0 THEN replaces_id ELSE g.id
        notification == [notification_id |-> NoKey,
                         id |-> notif_id,
                         timestamp |-> now,
                         expire_timeout |-> IF expire_timeout > 0 THEN expire_timeout
                                            ELSE DEFAULT_TIMEOUT]
    IN /\ replaces_id = 0 => notification_id_counter <= MaxCounter
       /\ Store("notify", notif_id, <<notif_id>>,
                add_notification(Current, notification, now, ok))
       /\ notification_id_counter' = IF replaces_id # 0 THEN notification_id_counter
                                     ELSE g.counter
       /\ UNCHANGED <<now, reaper_wake, pc, current_time, invoked, raceVars>>

\* the ids a caller has been given
GivenIds == {Digest(c) : c \in 1..MaxCounter}

\* NotificationHandler.CloseNotification, lines 115-122, through
\* remove_notification, lines 272-274
HandlerClose ==
  \E id \in GivenIds, ok \in BOOLEAN :
    /\ Store("close", id, <<>>, remove_notification(Current, id, now, ok))
    /\ UNCHANGED <<now, reaper_wake, stepVars, raceVars>>

\* DBusService.CloseNotification, lines 148-167: the handler has no method
\* close_notification, the AttributeError is handed to handle_error
DBusClose ==
  \E id \in GivenIds :
    /\ Store("dbus_close", id, <<>>, Current)
    /\ UNCHANGED <<now, reaper_wake, stepVars, raceVars>>

\* NotificationHandler.get_notification, lines 284-286
HandlerGet ==
  \E id \in GivenIds :
    /\ Store("get", id, <<get_notification(Current, id)>>, Current)
    /\ UNCHANGED <<now, reaper_wake, stepVars, raceVars>>

NextClose ==
  \/ HandlerNotify
  \/ HandlerClose
  \/ DBusClose
  \/ HandlerGet
  \/ List
  \/ Tick

SpecClose == Init /\ [][NextClose]_vars

\* ------------------------------------------------ the reaper thread, by line
\* The reaper's round with its call of update_eww_widget (line 64) taken one
\* statement at a time, while the inbound thread adds records.  No lock is
\* taken anywhere in NotificationQueue, so an inbound call may run between
\* any two statements of the reaper.  The statements of one call take no
\* time on the clock's scale: the clock moves while the reaper sleeps.
Push(inv, t) == IF Len(inv) < 2 THEN Append(inv, t) ELSE <<inv[2], t>>
Published(self, t) == IF self.pub THEN Push(invoked, t) ELSE invoked

\* add_notification on the inbound thread
GateAdd ==
  \E n \in AddArgs :
    LET self == add_notification(Current, n, now, TRUE)
    IN /\ Store("add", n.notification_id, <<>>, self)
       /\ invoked' = Published(self, now)
       /\ UNCHANGED <<now, reaper_wake, notification_id_counter, pc, current_time, raceVars>>

\* lines 61-63: the sleep ends, the sweep runs, the list is tested
ReaperSweep ==
  /\ pc = "sleep"
  /\ now >= reaper_wake
  /\ LET self == _cleanup_old_notifications(Current, now, TRUE)
     IN /\ Store("reaper", 0, <<>>, self)
        /\ invoked' = Published(self, now)
        /\ pc' = IF self.notifications # <<>> THEN "l280" ELSE "sleep"
  /\ reaper_wake' = now + 1
  /\ UNCHANGED <<now, notification_id_counter, current_time, raceVars>>

\* line 280: current_time = time.time()
Reaper_l280 ==
  /\ pc = "l280"
  /\ current_time' = now
  /\ pc' = "l281"
  /\ UNCHANGED <<notifications, last_update, cache_file, now, reaper_wake, dirty,
                 opVars, notification_id_counter, invoked, imageVars, retryVars, raceVars>>

\* line 281: if current_time - self.last_update >= UPDATE_COOLDOWN
Reaper_l281 ==
  /\ pc = "l281"
  /\ IF current_time - last_update >= UPDATE_COOLDOWN
     THEN pc' = "l282" /\ UNCHANGED current_time
     ELSE pc' = "sleep" /\ current_time' = 0
  /\ UNCHANGED <<notifications, last_update, cache_file, now, reaper_wake, dirty,
                 opVars, notification_id_counter, invoked, imageVars, retryVars, raceVars>>

\* lines 282-283: self.last_update = current_time; return True
Reaper_l282 ==
  /\ pc = "l282"
  /\ last_update' = current_time
  /\ pc' = "l307"
  /\ UNCHANGED <<notifications, cache_file, now, reaper_wake, dirty,
                 opVars, notification_id_counter, current_time, invoked, imageVars, retryVars, raceVars>>

\* lines 304-312: subprocess.run(['eww', 'update', ...])
Reaper_l307 ==
  /\ pc = "l307"
  /\ invoked' = Push(invoked, now)
  /\ dirty' = FALSE
  /\ pc' = "sleep"
  /\ current_time' = 0
  /\ UNCHANGED <<notifications, last_update, cache_file, now, reaper_wake,
                 opVars, notification_id_counter, imageVars, retryVars, raceVars>>

GateTick ==
  /\ pc = "sleep"
  /\ Tick

NextGate ==
  \/ GateAdd
  \/ ReaperSweep
  \/ Reaper_l280
  \/ Reaper_l281
  \/ Reaper_l282
  \/ Reaper_l307
  \/ GateTick

SpecGate == Init /\ [][NextGate]_vars

\* The clock beyond MaxTime.  The code only ever compares differences of
\* times, so moving every stored time one second back is the clock moving
\* one second on.  A time that would fall below 0 stays at 0: at MaxTime a
\* record stamped 0 is expired for every timeout in use and a last_update
\* of 0 leaves the gate open, now and ever after.
Back(t) == IF t > 0 THEN t - 1 ELSE 0
Shift(s) == [i \in 1..Len(s) |-> [s[i] EXCEPT !.timestamp = Back(@)]]

Rebase ==
  /\ now = MaxTime
  /\ notifications' = Shift(notifications)
  /\ cache_file' = [cache_file EXCEPT !.data = Shift(@)]
  /\ last_update' = Back(last_update)
  /\ reaper_wake' = Back(reaper_wake)
  /\ UNCHANGED <<now, dirty>>
  /\ lastOp' = "tick"
  /\ arg' = 0
  /\ ret' = <<>>
  /\ trimmed' = <<>>
  /\ io' = "none"
  /\ pub' = FALSE
  /\ removed' = 0
  /\ UNCHANGED stepVars
  /\ UNCHANGED <<imageVars, retryVars, raceVars>>

NextFair ==
  \/ Add
  \/ Remove
  \/ Clear
  \/ List
  \/ ReaperTick
  \/ Tick
  \/ Rebase

\* The reaper thread loops for as long as the process lives and the clock
\* never stops; the inbound calls come when the callers make them.
FairSpec ==
  /\ Init
  /\ [][NextFair]_vars
  /\ WF_vars(ReaperTick)
  /\ WF_vars(Tick)
  /\ WF_vars(Rebase)

\* The store is filled at the start and no call comes from outside after
\* that: whether the records go again is left to the reaper.
FillAdd ==
  /\ now = StartTime
  /\ AddOk

NextReaper ==
  \/ FillAdd
  \/ ReaperTick
  \/ Tick
  \/ Rebase

FairReaper ==
  /\ Init
  /\ [][NextReaper]_vars
  /\ WF_vars(ReaperTick)
  /\ WF_vars(Tick)
  /\ WF_vars(Rebase)

\* --------------------------------------------- spotify/album_art_handler.py
Urls == 1..MaxUrl
\* a downloaded image is smaller than SPOTIFY_CACHE_MAX_SIZE or larger
FileSizes == {1, 3}
\* the attempts the retrying draft of the handler makes
MAX_RETRIES == 3
\* the file of a URL: ALBUM_ART_DIR / f"{md5(url)}.jpg"
PathBase == 10
file_path(url) == PathBase + url
\* return None
NoPath == 0

Put(m, k, v) == [x \in DOMAIN m \cup {k} |-> IF x = k THEN v ELSE m[x]]
\* the files left when `paths` are unlinked
Unlink(dir, paths) == [p \in DOMAIN dir \ paths |-> dir[p]]
\* {url: path for url, path in album_art_cache.items() if path != file_path}
DropPaths(cache, paths) ==
  [u \in {x \in DOMAIN cache : cache[x] \notin paths} |-> cache[u]]

RECURSIVE TotalSize(_, _)
TotalSize(dir, paths) ==
  IF paths = {} THEN 0
  ELSE LET p == CHOOSE x \in paths : TRUE
       IN dir[p].size + TotalSize(dir, paths \ {p})

\* the handler's fields, the two directories, and what a call reports
Art(cache, dir, json) ==
  [album_art_cache |-> cache, album_art_dir |-> dir, url_cache_json |-> json,
   ret |-> NoPath, fetched |-> 0, evicted |-> [age |-> {}, size |-> <<>>]]

\* the handler that downloads again what it has
get_album_art_path_refetch(self, url, t, k, size) ==
  IF k = 1
  THEN LET table == Put(self.album_art_cache, url, file_path(url))
       IN [self EXCEPT !.album_art_dir = Put(@, file_path(url), [mtime |-> t, size |-> size]),
                       !.album_art_cache = table,
                       !.url_cache_json = table,
                       !.ret = file_path(url),
                       !.fetched = 1]
  ELSE [self EXCEPT !.fetched = 1]

\* the handler that keeps an entry for a URL whose download failed
get_album_art_path_record(self, url, t, k, size) ==
  IF /\ url \in DOMAIN self.album_art_cache
     /\ self.album_art_cache[url] \in DOMAIN self.album_art_dir
  THEN [self EXCEPT !.ret = self.album_art_cache[url]]
  ELSE LET table == Put(self.album_art_cache, url, file_path(url))
       IN IF k = 1
          THEN [self EXCEPT !.album_art_dir = Put(@, file_path(url), [mtime |-> t, size |-> size]),
                            !.album_art_cache = table,
                            !.url_cache_json = table,
                            !.ret = file_path(url),
                            !.fetched = 1]
          ELSE [self EXCEPT !.album_art_cache = table, !.fetched = 1]

\* AlbumArtHandler.get_album_art_path(url) at time t, the server answering
\* attempt k first (never when k = 0) with an image of `size` bytes
get_album_art_path(self, url, t, k, size) ==
  IF /\ url \in DOMAIN self.album_art_cache
     /\ self.album_art_cache[url] \in DOMAIN self.album_art_dir
  THEN [self EXCEPT !.ret = self.album_art_cache[url]]
  ELSE IF k = 1
       THEN LET table == Put(self.album_art_cache, url, file_path(url))
            IN [self EXCEPT !.album_art_dir = Put(@, file_path(url), [mtime |-> t, size |-> size]),
                            !.album_art_cache = table,
                            !.url_cache_json = table,
                            !.ret = file_path(url),
                            !.fetched = 1]
       ELSE [self EXCEPT !.fetched = 1]

\* the age test one second late
OldFiles_late(dir, t) == {p \in DOMAIN dir : t - dir[p].mtime > SPOTIFY_CACHE_MAX_AGE + 1}
\* file_age > MAX_CACHE_AGE
OldFiles(dir, t) == {p \in DOMAIN dir : t - dir[p].mtime > SPOTIFY_CACHE_MAX_AGE}

\* the files in the order the directory lists them, unsorted
SortedByMtime_glob(dir) ==
  {s \in [1..Cardinality(DOMAIN dir) -> DOMAIN dir] :
     \A i, j \in DOMAIN s : i # j => s[i] # s[j]}

\* sorted(glob('*'), key=st_mtime): every order of the files by ascending
\* mtime, files of one mtime in the order the directory lists them
SortedByMtime(dir) ==
  {s \in [1..Cardinality(DOMAIN dir) -> DOMAIN dir] :
     /\ \A i, j \in DOMAIN s : i # j => s[i] # s[j]
     /\ \A i, j \in DOMAIN s : i < j => dir[s[i]].mtime <= dir[s[j]].mtime}

\* for file_path in files: if total_size <= MAX: break; unlink; total_size -= size
RECURSIVE SizeLoop(_, _, _, _)
SizeLoop(files, i, total_size, dir) ==
  IF i > Len(files) \/ total_size <= SPOTIFY_CACHE_MAX_SIZE THEN <<>>
  ELSE <<files[i]>> \o SizeLoop(files, i + 1, total_size - dir[files[i]].size, dir)

\* the pass that never unlinks for size
SizePass_none(dir, files) == <<>>
\* what the size pass unlinks of a directory without old files
SizePass(dir, files) ==
  LET total_size == TotalSize(dir, DOMAIN dir)
  IN IF total_size > SPOTIFY_CACHE_MAX_SIZE THEN SizeLoop(files, 1, total_size, dir)
     ELSE <<>>

Paths(seq) == {seq[i] : i \in DOMAIN seq}
Report(old, gone, dir) ==
  [age |-> old,
   size |-> [i \in DOMAIN gone |-> [path |-> gone[i], mtime |-> dir[gone[i]].mtime,
                                    size |-> dir[gone[i]].size]]]

\* AlbumArtHandler.cleanup_cache() at time t, sorted() returning `files`
cleanup_cache(self, t, files) ==
  LET old == OldFiles(self.album_art_dir, t)
      dir == Unlink(self.album_art_dir, old)
      gone == SizePass(dir, files)
      table == DropPaths(self.album_art_cache, old \cup Paths(gone))
  IN [self EXCEPT !.album_art_dir = Unlink(dir, Paths(gone)),
                  !.album_art_cache = table,
                  !.url_cache_json = table,
                  !.evicted = Report(old, gone, dir)]

\* SpotifyHandler._cleanup_cache() at time t: the same two passes over the
\* same directory, the handler's table of URLs left as it is
_cleanup_cache(self, t, files) ==
  LET old == OldFiles(self.album_art_dir, t)
      dir == Unlink(self.album_art_dir, old)
      gone == SizePass(dir, files)
  IN [self EXCEPT !.album_art_dir = Unlink(dir, Paths(gone)),
                  !.evicted = Report(old, gone, dir)]

\* AlbumArtHandler() followed by SpotifyHandler(album_art_handler), as
\* __main__ constructs them
Startup(self, t, files) ==
  _cleanup_cache([self EXCEPT !.album_art_cache = self.url_cache_json], t, files)

CurrentArt == Art(album_art_cache, album_art_dir, url_cache_json)
\* what an operation of the image cache leaves behind
StoreArt(op, a, k, self) ==
  /\ album_art_cache' = self.album_art_cache
  /\ album_art_dir' = self.album_art_dir
  /\ url_cache_json' = self.url_cache_json
  /\ fetched' = self.fetched
  /\ first_ok' = k
  /\ evicted' = self.evicted
  /\ lastOp' = op
  /\ arg' = a
  /\ ret' = <<self.ret>>
  /\ UNCHANGED <<notifications, last_update, cache_file, now, reaper_wake, dirty,
                 trimmed, io, pub, removed, stepVars, raceVars, retryVars>>

Resolve ==
  \E url \in Urls, k \in 0..MAX_RETRIES, size \in FileSizes :
    StoreArt("resolve", url, k, get_album_art_path(CurrentArt, url, now, k, size))

\* the files the size pass sorts are those the age pass left
Evict ==
  \E files \in SortedByMtime(Unlink(album_art_dir, OldFiles(album_art_dir, now))) :
    StoreArt("evict", 0, 0, cleanup_cache(CurrentArt, now, files))

Restart ==
  \E files \in SortedByMtime(Unlink(album_art_dir, OldFiles(album_art_dir, now))) :
    StoreArt("restart", 0, 0, Startup(CurrentArt, now, files))

NextArt ==
  \/ Resolve
  \/ Evict
  \/ Restart
  \/ Tick

SpecArt == Init /\ [][NextArt]_vars

\* ------------------------------------ the reaper's sweep, element by element
\* _cleanup_old_notifications on the reaper thread, taken at the steps at
\* which the interpreter may switch threads: the comprehension of line 161
\* visits the list object one element at a time and its result is bound to
\* self.notifications when the list is exhausted.  The calls of the inbound
\* thread run whole between two such steps; no lock is taken.  The
\* comprehension walks the list object it was started on: an insert(0, ...)
\* made on that object while it is still bound to self.notifications moves
\* the elements under the iterator, and every call of the inbound thread then
\* binds self.notifications to a new list.
\* lines 166-186, the list of line 161 being bound already
AfterFilter(self, initial_count, t, ok) ==
  IF Len(self.notifications) < initial_count
  THEN update_eww_widget(_save_notifications(self, ok), t)
  ELSE IF Len(self.notifications) > MAX_NOTIFICATIONS
       THEN update_eww_widget(
              _save_notifications(
                [self EXCEPT !.notifications = Head_n(@, MAX_NOTIFICATIONS),
                             !.trimmed = self.trimmed \o Tail_n(self.notifications, MAX_NOTIFICATIONS)],
                ok), t)
       ELSE self

\* the list object the comprehension walks, after a call of the inbound
\* thread that began with insert(0, n) (n = <<>>: with no insert)
Detached(n) ==
  IF pc = "l161" /\ sweep.shared
  THEN [sweep EXCEPT !.list = n \o @, !.shared = FALSE]
  ELSE sweep

\* the inbound thread gets to run while the reaper sleeps or when the loop
\* of the comprehension jumps back after an element
SwitchPoint == pc = "sleep" \/ (pc = "l161" /\ sweep.i >= 1)

\* a record with an id that no record of the store or of the sweep has
Fresh_id(id) ==
  /\ \A i \in 1..Len(notifications) : notifications[i].notification_id # id
  /\ \A i \in 1..Len(sweep.list) : sweep.list[i].notification_id # id

RaceAdd ==
  \E id \in WideIds, e \in {Absent} \cup Timeouts :
    LET n == [notification_id |-> id, timestamp |-> Absent, expire_timeout |-> e]
    IN /\ SwitchPoint
       /\ Fresh_id(id)
       /\ Store("add", id, <<>>, add_notification(Current, n, now, TRUE))
       /\ sweep' = Detached(<<WithDefaults(n, now)>>)
       /\ UNCHANGED <<now, reaper_wake, stepVars, temp_file, writers>>

RaceRemove ==
  \E id \in WideIds :
    /\ SwitchPoint
    /\ Store("remove", id, <<>>, remove_notification(Current, id, now, TRUE))
    /\ sweep' = Detached(<<>>)
    /\ UNCHANGED <<now, reaper_wake, stepVars, temp_file, writers>>

RaceClear ==
  /\ SwitchPoint
  /\ Store("clear", 0, <<>>, clear(Current, now, TRUE))
  /\ sweep' = Detached(<<>>)
  /\ UNCHANGED <<now, reaper_wake, stepVars, temp_file, writers>>

\* lines 61-62, 158-161: the sleep ends; current_time and initial_count are
\* taken and the comprehension starts on self.notifications
RaceWake ==
  /\ pc = "sleep"
  /\ now >= reaper_wake
  /\ pc' = "l161"
  /\ current_time' = now
  /\ sweep' = [list |-> notifications, i |-> 0, out |-> <<>>, shared |-> TRUE,
               initial_count |-> Len(notifications)]
  /\ lastOp' = "sweep"
  /\ arg' = 0
  /\ UNCHANGED <<notifications, last_update, cache_file, now, reaper_wake, dirty,
                 ret, trimmed, io, pub, removed,
                 notification_id_counter, invoked, imageVars, retryVars, temp_file, writers>>

\* lines 162-164: the next element is tested and kept or dropped
RaceIter ==
  /\ pc = "l161"
  /\ sweep.i < Len(sweep.list)
  /\ LET n == sweep.list[sweep.i + 1]
     IN sweep' = [sweep EXCEPT !.i = @ + 1,
                               !.out = IF NotExpired(n, current_time) THEN Append(@, n) ELSE @]
  /\ UNCHANGED <<notifications, last_update, cache_file, now, reaper_wake, dirty,
                 opVars, stepVars, imageVars, retryVars, temp_file, writers>>

\* the list is exhausted: line 161 binds the result, lines 166-186 save and
\* publish, line 63-64 publish a non-empty list, and the thread sleeps
RaceStore ==
  /\ pc = "l161"
  /\ sweep.i >= Len(sweep.list)
  /\ LET bound == [Current EXCEPT !.notifications = sweep.out]
         swept == AfterFilter(bound, sweep.initial_count, current_time, TRUE)
         self == IF swept.notifications # <<>> THEN update_eww_widget(swept, now) ELSE swept
     IN Store("reaper", 0, <<>>, self)
  /\ pc' = "sleep"
  /\ current_time' = 0
  /\ sweep' = NoSweep
  /\ reaper_wake' = now + 1
  /\ UNCHANGED <<now, notification_id_counter, invoked, temp_file, writers>>

NextRace ==
  \/ RaceAdd
  \/ RaceRemove
  \/ RaceClear
  \/ RaceWake
  \/ RaceIter
  \/ RaceStore
  \/ GateTick

SpecRace == Init /\ [][NextRace]_vars

\* ------------------------------------------- two threads saving at a time
\* _save_notifications, lines 134-149, taken at its system calls: open(
\* self.temp_file, 'w') creates the temporary file or truncates the one that
\* is there, json.dump fills the buffer of the file object, leaving the with
\* block writes the buffer at the start of the file the descriptor is open
\* on, and replace() renames the temporary path over the snapshot.  Both
\* threads use the one path NOTIFICATION_TEMP_FILE and no lock is taken.  A
\* descriptor stays on its file when the file is renamed: fd says under which
\* path that file is found now.

\* bytes written at the start of a file: a shorter text leaves the tail of
\* the longer one behind it (texts of as many records are taken to be of the
\* same length)
Overwrite(old, buf) ==
  IF old.kind = "list" /\ Len(buf) < Len(old.data) THEN InvalidFile ELSE JsonFile(buf)

\* lines 134-142: a call that reaches _save_notifications has changed the
\* list, trims it, opens the temporary file and dumps the list; a call that
\* does not save is done.  after is what the call computes when it runs alone.
SaveOpen(th, op, a, after) ==
  /\ writers[th].pc = "idle"
  /\ IF after.io = "none"
     THEN /\ Store(op, a, <<>>, after)
          /\ UNCHANGED <<temp_file, writers>>
     ELSE /\ Store(op, a, <<>>, [Current EXCEPT !.notifications = after.notifications,
                                                !.trimmed = after.trimmed,
                                                !.removed = after.removed])
          /\ temp_file' = EmptyFile
          /\ writers' = [writers EXCEPT ![th] = [pc |-> "opened", buf |-> after.notifications,
                                                  fd |-> "temp"]]
  /\ UNCHANGED <<now, stepVars, sweep>>

SaveAdd ==
  \E id \in WideIds, e \in {Absent} \cup Timeouts :
    LET n == [notification_id |-> id, timestamp |-> Absent, expire_timeout |-> e]
    IN /\ (\A i \in 1..Len(notifications) : notifications[i].notification_id # id)
       /\ SaveOpen("inbound", "add", id, add_notification(Current, n, now, TRUE))
       /\ UNCHANGED reaper_wake

SaveRemove ==
  \E id \in WideIds :
    /\ SaveOpen("inbound", "remove", id, remove_notification(Current, id, now, TRUE))
    /\ UNCHANGED reaper_wake

SaveClear ==
  /\ SaveOpen("inbound", "clear", 0, clear(Current, now, TRUE))
  /\ UNCHANGED reaper_wake

\* lines 61-64: the reaper's tick; one that does not save publishes a
\* non-empty list and sleeps again
SaveReaper ==
  /\ now >= reaper_wake
  /\ LET swept == _cleanup_old_notifications(Current, now, TRUE)
     IN IF swept.io = "none"
        THEN /\ SaveOpen("reaper", "reaper", 0,
                         IF swept.notifications # <<>> THEN update_eww_widget(swept, now)
                         ELSE swept)
             /\ reaper_wake' = now + 1
        ELSE /\ SaveOpen("reaper", "reaper", 0, swept)
             /\ UNCHANGED reaper_wake

\* line 142, the with block is left: the buffer is written and the
\* descriptor closed
SaveClose ==
  \E th \in SaveThreads :
    /\ writers[th].pc = "opened"
    /\ temp_file' = IF writers[th].fd = "temp" THEN Overwrite(temp_file, writers[th].buf)
                    ELSE temp_file
    /\ cache_file' = IF writers[th].fd = "cache" THEN Overwrite(cache_file, writers[th].buf)
                     ELSE cache_file
    /\ writers' = [writers EXCEPT ![th] = [@ EXCEPT !.pc = "closed", !.fd = "none"]]
    /\ UNCHANGED <<notifications, last_update, now, reaper_wake, dirty,
                   opVars, stepVars, imageVars, retryVars, sweep>>

\* the files the open descriptors are on, after the rename
Renamed(w) ==
  [th \in SaveThreads |->
     [w[th] EXCEPT !.fd = IF @ = "temp" THEN "cache" ELSE IF @ = "cache" THEN "gone" ELSE @]]

\* lines 144-149: replace(); with no temporary file it raises
\* FileNotFoundError, which is logged.  The caller then publishes.
SaveReplace ==
  \E th \in SaveThreads :
    /\ writers[th].pc = "closed"
    /\ LET self == IF temp_file = NoFile THEN [Current EXCEPT !.io = "fail"]
                   ELSE [Current EXCEPT !.cache_file = temp_file, !.io = "ok"]
       IN Store("save", 0, <<>>, update_eww_widget(self, now))
    /\ temp_file' = NoFile
    /\ writers' = [IF temp_file = NoFile THEN writers ELSE Renamed(writers)
                     EXCEPT ![th] = NoWriter]
    /\ reaper_wake' = IF th = "reaper" THEN now + 1 ELSE reaper_wake
    /\ UNCHANGED <<now, stepVars, sweep>>

NextSave ==
  \/ SaveAdd
  \/ SaveRemove
  \/ SaveClear
  \/ SaveReaper
  \/ SaveClose
  \/ SaveReplace
  \/ GateTick

SpecSave == Init /\ [][NextSave]_vars

\* ------------------------------------------------- utils/error_handler.py
\* retry_on_error, lines 44-86.  A call of the decorated function either
\* returns, raises one of the listed exceptions, or raises another one.
CallOutcomes == {"ok", "listed", "other"}

\* the loop body with a sleep after the last failure as well
retry_attempt_sleeps(w, o) ==
  LET k == Len(w.calls) + 1
      called == [w EXCEPT !.calls = Append(@, o)]
      e == [kind |-> "listed", call |-> k]
  IN IF o = "ok"
     THEN [called EXCEPT !.pc = "done", !.outcome = "returned",
                         !.value = [kind |-> "result", call |-> k]]
     ELSE IF o = "other"
     THEN [called EXCEPT !.pc = "done", !.outcome = "raised",
                         !.value = [kind |-> "other", call |-> k]]
     ELSE IF w.attempt < w.max_retries - 1
     THEN [called EXCEPT !.last_exception = e,
                         !.slept = Append(@, w.current_delay),
                         !.current_delay = @ * w.backoff,
                         !.attempt = @ + 1]
     ELSE [called EXCEPT !.last_exception = e,
                         !.slept = Append(@, w.current_delay),
                         !.pc = "done", !.outcome = "raised", !.value = e]

\* lines 68-83, one pass of the loop: func is called, and its k-th call
\* returns (the wrapper returns that), raises an exception that is not
\* listed (it leaves the wrapper), or raises a listed one, which is kept;
\* the wrapper then sleeps and goes on, or raises it on the last attempt
retry_attempt(w, o) ==
  LET k == Len(w.calls) + 1
      called == [w EXCEPT !.calls = Append(@, o)]
      e == [kind |-> "listed", call |-> k]
  IN IF o = "ok"
     THEN [called EXCEPT !.pc = "done", !.outcome = "returned",
                         !.value = [kind |-> "result", call |-> k]]
     ELSE IF o = "other"
     THEN [called EXCEPT !.pc = "done", !.outcome = "raised",
                         !.value = [kind |-> "other", call |-> k]]
     ELSE IF w.attempt < w.max_retries - 1
     THEN [called EXCEPT !.last_exception = e,
                         !.slept = Append(@, w.current_delay),
                         !.current_delay = @ * w.backoff,
                         !.attempt = @ + 1]
     ELSE [called EXCEPT !.last_exception = e,
                         !.pc = "done", !.outcome = "raised", !.value = e]

\* line 85, after a loop that ran out: raise last_exception, which is None
\* when the loop made no pass (a TypeError)
retry_exhausted(w) ==
  [w EXCEPT !.pc = "done", !.outcome = "raised",
            !.value = IF w.last_exception = NoException
                      THEN [kind |-> "TypeError", call |-> 0]
                      ELSE w.last_exception]

\* lines 64-66: the wrapper is called
RetryEnter ==
  /\ wrapper.pc = "idle"
  /\ \E n \in 0..MaxRetries, delay \in 1..MaxDelay, backoff \in 1..MaxBackoff :
       wrapper' = [NoCall EXCEPT !.pc = "loop", !.max_retries = n, !.delay = delay,
                                 !.backoff = backoff, !.current_delay = delay]
  /\ lastOp' = "retry"
  /\ UNCHANGED <<notifications, last_update, cache_file, now, reaper_wake, dirty,
                 arg, ret, trimmed, io, pub, removed, stepVars, imageVars, raceVars>>

\* line 68: for attempt in range(max_retries)
RetryLoop ==
  /\ wrapper.pc = "loop"
  /\ IF wrapper.attempt < wrapper.max_retries
     THEN \E o \in CallOutcomes : wrapper' = retry_attempt(wrapper, o)
     ELSE wrapper' = retry_exhausted(wrapper)
  /\ UNCHANGED <<notifications, last_update, cache_file, now, reaper_wake, dirty,
                 opVars, stepVars, imageVars, raceVars>>

\* the caller has the result or the exception
RetryDone ==
  /\ wrapper.pc = "done"
  /\ wrapper' = NoCall
  /\ UNCHANGED <<notifications, last_update, cache_file, now, reaper_wake, dirty,
                 opVars, stepVars, imageVars, raceVars>>

NextRetry ==
  \/ RetryEnter
  \/ RetryLoop
  \/ RetryDone

SpecRetry == Init /\ [][NextRetry]_vars

\* ------------------------------------------------------------------ claims
\* a record is expired at time t: t - created_at > expire_after
Expired(n, t) == (t - n.timestamp) * 1000 > n.expire_timeout

\* C1: between operations the collection holds at most MAX_NOTIFICATIONS
\* records.
C1_CapacityBound == Len(notifications) <= MAX_NOTIFICATIONS

\* an Add into a full collection dropped a record and left exactly
\* MAX_NOTIFICATIONS
C1_Witness ==
  /\ lastOp = "add"
  /\ trimmed # <<>>
  /\ Len(notifications) = MAX_NOTIFICATIONS

\* C2: when an Add trims for capacity, every record it discards is at least
\* as old (by timestamp) as every record the collection held, whether the
\* timestamps were defaulted or supplied.
C2_TrimDropsOldest ==
  [][(lastOp' = "add" /\ trimmed' # <<>>)
       => \A j \in 1..Len(trimmed') : \A i \in 1..Len(notifications) :
            trimmed'[j].timestamp <= notifications[i].timestamp]_vars

\* C3: get_notifications returns no record that is expired at the time of the
\* call, and no expired record is left when _cleanup_old_notifications
\* returns.
C3_ListFresh ==
  /\ lastOp = "list" => \A i \in 1..Len(ret) : ~Expired(ret[i], now)
  /\ lastOp \in {"list", "add", "reaper", "construct"}
       => \A i \in 1..Len(notifications) : ~Expired(notifications[i], now)

\* a List that swept an expired record and returned the records left
C3_Witness ==
  /\ lastOp = "list"
  /\ io = "ok"
  /\ ret # <<>>

\* C4: get_notification never returns a record that is expired at the time
\* of the call.
C4_GetFresh ==
  (lastOp = "get" /\ ret[1] # None) => ~Expired(ret[1], now)

\* C5: after a mutating operation that met no I/O failure, the snapshot file
\* holds exactly the in-memory collection.
C5_SnapshotCurrent ==
  [][((\/ lastOp' \in {"add", "clear"}
       \/ lastOp' \in {"remove", "list", "reaper"} /\ notifications' # notifications)
      /\ io' # "fail")
       => cache_file' = JsonFile(notifications')]_vars

\* C6: after a reaper tick without I/O failure the snapshot file holds no
\* record that is expired at the time of the tick.
C6_ReaperSnapshotFresh ==
  (lastOp = "reaper" /\ io # "fail")
    => \A i \in 1..Len(cache_file.data) : ~Expired(cache_file.data[i], now)

\* C7: a store constructed over a snapshot file starts with the file's
\* non-expired records, most recent first, trimmed to MAX_NOTIFICATIONS.
C7_ConstructLoads ==
  lastOp = "construct" => notifications = ret

\* C8: for every collection S the store can hold, Load(Save(S)) equals
\* EnforceInvariants(S) at the same instant: the same records in the same
\* order.
C8_RoundTrip ==
  lastOp = "roundtrip" => ret = notifications

\* C9: when no further mutation follows, the publisher is eventually invoked
\* with the final collection: either the collection keeps changing, or from
\* some point on no change is left unpublished.
C9_FinalStatePublished ==
  \/ []<><<lastOp' # "tick" /\ notifications' # notifications>>_vars
  \/ <>[](~dirty)

\* C10: should_update returns true exactly when at least UPDATE_COOLDOWN has
\* passed since the stored time of the last true result, stores the time of
\* the call when it returns true and leaves the stored time alone otherwise;
\* a second call at the instant of a true one returns false.
C10_Debounce ==
  [][lastOp' = "should_update"
       => /\ ret'[1] = (now - last_update >= UPDATE_COOLDOWN)
          /\ last_update' = (IF ret'[1] THEN now ELSE last_update)
          /\ (lastOp = "should_update" /\ ret[1]) => ~ret'[1]]_vars

\* a call later than a true one, but less than UPDATE_COOLDOWN later, that
\* returned false and left the stored time alone
C10_Witness ==
  /\ lastOp = "should_update"
  /\ ret = <<FALSE>>
  /\ last_update > 0
  /\ now > last_update

\* the records of s whose id is not id, in their order
WithoutId(s, id) == SelectSeq(s, LAMBDA n : n.notification_id # id)
\* s without the first of its records whose id is id
WithoutFirst(s, id) ==
  LET hit == {i \in 1..Len(s) : s[i].notification_id = id}
      k == CHOOSE i \in hit : \A j \in hit : i <= j
  IN IF hit = {} THEN s ELSE SubSeq(s, 1, k - 1) \o SubSeq(s, k + 1, Len(s))
HasId(s, id) == \E i \in 1..Len(s) : s[i].notification_id = id
\* the number of times r occurs in s
Count(s, r) == Cardinality({i \in 1..Len(s) : s[i] = r})
\* a publish is requested at time t: the publisher runs exactly when the gate
\* is open, and the gate then stores t
PublishRequested(t, lu, lu2, p) ==
  /\ p = (t - lu >= UPDATE_COOLDOWN)
  /\ lu2 = (IF p THEN t ELSE lu)

\* C11: the publisher (`eww update`) is never invoked twice less than
\* UPDATE_COOLDOWN apart, whatever the interleaving of the inbound thread and
\* the reaper thread.
C11_PublishSpacing ==
  Len(invoked) = 2 => invoked[2] - invoked[1] >= UPDATE_COOLDOWN

\* C12: no two records in the store have the same id, for generated ids and
\* for ids supplied through replaces_id.
C12_UniqueIds ==
  \A i, j \in 1..Len(notifications) :
    i # j => notifications[i].notification_id # notifications[j].notification_id

\* C13, as stated: Remove(id) deletes only the first record whose id matches;
\* when several records share the id, the others remain.
C13_RemoveFirstOnly ==
  [][lastOp' = "remove" => notifications' = WithoutFirst(notifications, arg')]_vars

\* C13, amended: Remove(id) deletes every record whose id matches; the
\* records of other ids remain, in their order.
C13_RemoveDeletesEvery ==
  [][lastOp' = "remove" => notifications' = WithoutId(notifications, arg')]_vars

\* a Remove that deleted two records sharing the id
C13_Witness ==
  /\ lastOp = "remove"
  /\ removed = 2

\* C14: Remove(id) when no record has that id leaves the collection, the
\* snapshot file and the last-publish time unchanged and neither saves nor
\* publishes.
C14_RemoveAbsentNoop ==
  [][(lastOp' = "remove" /\ ~HasId(notifications, arg'))
       => /\ notifications' = notifications
          /\ cache_file' = cache_file
          /\ last_update' = last_update
          /\ io' = "none"
          /\ pub' = FALSE]_vars

\* a Remove of an id that none of the records of a non-empty collection has,
\* at a time when the gate would have let a publish through
C14_Witness ==
  /\ lastOp = "remove"
  /\ notifications # <<>>
  /\ ~HasId(notifications, arg)
  /\ removed = 0
  /\ now - last_update >= UPDATE_COOLDOWN

\* C15: after Remove(id) returns no record with that id is in the collection
\* and Get(id) is not-found, and an id that is not in the collection comes
\* into it only by an Add of a record with that id.
C15_RemovedStaysOut ==
  [][/\ lastOp' = "remove"
          => /\ ~HasId(notifications', arg')
             /\ get_notification(Self(notifications', last_update', cache_file'), arg') = None
     /\ \A id \in WideIds :
          (~HasId(notifications, id) /\ HasId(notifications', id))
            => (lastOp' = "add" /\ arg' = id)]_vars

\* a Remove that deleted a record
C15_Witness ==
  /\ lastOp = "remove"
  /\ removed > 0
  /\ ~HasId(notifications, arg)

\* C16: after Clear() the collection is empty, the snapshot was written, and
\* holds the empty collection unless the write failed, and a publish of the
\* empty collection was requested through the gate.
C16_ClearEmpties ==
  [][lastOp' = "clear"
       => /\ notifications' = <<>>
          /\ io' \in {"ok", "fail"}
          /\ io' = "ok" => cache_file' = JsonFile(<<>>)
          /\ io' = "fail" => cache_file' = cache_file
          /\ PublishRequested(now, last_update, last_update', pub')]_vars

\* a Clear of a non-empty collection that saved and published
C16_Witness ==
  /\ lastOp = "clear"
  /\ removed > 0
  /\ io = "ok"
  /\ pub
  /\ cache_file = JsonFile(<<>>)

C18_ListOrdered ==
  lastOp = "list"
    => \A i, j \in 1..Len(ret) : i < j => ret[i].timestamp >= ret[j].timestamp

\* C19: a store constructed over a snapshot file that is missing, empty, not
\* JSON or not a list has an empty collection; constructed over a list with
\* elements that are not records, it holds the list's valid (non-expired)
\* records.
C19_ConstructTolerant ==
  lastOp = "construct"
    => /\ cache_file.kind # "list" => notifications = <<>>
       /\ (cache_file.kind = "list"
             /\ \E i \in 1..Len(cache_file.data) : ~IsDict(cache_file.data[i]))
            => \A i \in 1..Len(cache_file.data) :
                 (IsDict(cache_file.data[i])
                    /\ ~Expired(Backfill(cache_file.data[i], now), now))
                   => \E j \in 1..Len(notifications) :
                        notifications[j] = Backfill(cache_file.data[i], now)

C22_RetriesUntilSuccess ==
  (/\ lastOp = "resolve"
   /\ fetched > 0
   /\ first_ok \in 1..MAX_RETRIES)
    => /\ ret = <<file_path(arg)>>
       /\ arg \in DOMAIN album_art_cache
       /\ album_art_cache[arg] \in DOMAIN album_art_dir

\* C23: a Resolve whose download fails, no attempt being answered, returns
\* None to its caller and records nothing: the lookup table, the saved table
\* and the cache directory are as before, and a URL without an entry is still
\* without one.
C23_FailureRecordsNothing ==
  [][(/\ lastOp' = "resolve"
      /\ fetched' > 0
      /\ first_ok' = 0)
       => /\ ret' = <<NoPath>>
          /\ album_art_cache' = album_art_cache
          /\ url_cache_json' = url_cache_json
          /\ album_art_dir' = album_art_dir
          /\ arg' \notin DOMAIN album_art_cache => arg' \notin DOMAIN album_art_cache']_vars

\* a failed download of a URL while the table holds another URL's entry
C23_Witness ==
  /\ lastOp = "resolve"
  /\ fetched = 1
  /\ first_ok = 0
  /\ ret = <<NoPath>>
  /\ arg \notin DOMAIN album_art_cache
  /\ album_art_cache # NoMap

RECURSIVE SizeFrom(_, _)
SizeFrom(gone, i) == IF i > Len(gone) THEN 0 ELSE gone[i].size + SizeFrom(gone, i + 1)

C27_EntriesHaveFiles ==
  \A url \in DOMAIN album_art_cache : album_art_cache[url] \in DOMAIN album_art_dir

\* C28: a Resolve that downloaded an image is followed by an eviction pass
\* before another Resolve starts, so that no Resolve starts with the cache
\* directory above SPOTIFY_CACHE_MAX_SIZE.
C28_EvictAfterDownload ==
  [][lastOp' = "resolve"
       => /\ ~(lastOp = "resolve" /\ fetched > 0 /\ ret # <<NoPath>>)
          /\ TotalSize(album_art_dir, DOMAIN album_art_dir) <= SPOTIFY_CACHE_MAX_SIZE]_vars

\* ------------------------------------ the image of a record at ingestion
\* (notification_processor.py, spotify_handler.py)
Apps == {"spotify", "other"}
\* the image hint of a notification ('image-path', 'image_url' or 'image'):
\* none, an https URL, or another string such as a local path
NoHint == [kind |-> "none", url |-> 0]
Hints == {NoHint, [kind |-> "local", url |-> 0]} \cup {[kind |-> "https", url |-> u] : u \in Urls}
\* get_album_art_path("mpris")
MprisSource == [kind |-> "mpris", url |-> 0]
\* notification['image']: None, a path of the cache directory, or the hint's
\* string as it came
NoImage == [kind |-> "none", value |-> 0]
PathImage(p) == [kind |-> "path", value |-> p]
RawImage(hint) == [kind |-> "raw", value |-> hint.url]
\* the handler before a call, its report cleared
Fresh(self) == Art(self.album_art_cache, self.album_art_dir, self.url_cache_json)

\* SpotifyHandler.get_album_art_path(url_or_data), the player reporting the
\* art URL `mpris` (0: no player, or no https URL)
SpotifyHandler_get_album_art_path(self, url_or_data, mpris, t, k, size) ==
  IF url_or_data.kind = "https"
  THEN get_album_art_path(Fresh(self), url_or_data.url, t, k, size)
  ELSE IF url_or_data.kind = "mpris" /\ mpris # 0
       THEN get_album_art_path(Fresh(self), mpris, t, k, size)
       ELSE Fresh(self)

\* NotificationProcessor.get_icon_and_image: the image, and the handler after
\* the calls made
get_icon_and_image(self, app, hint, mpris, t, k, size) ==
  IF app # "spotify" THEN [art |-> Fresh(self), image |-> NoImage, fetched |-> 0]
  ELSE LET a1 == IF mpris # 0
                 THEN SpotifyHandler_get_album_art_path(self, MprisSource, mpris, t, k[1], size)
                 ELSE Fresh(self)
           a2 == IF a1.ret = NoPath /\ hint.kind = "https"
                 THEN SpotifyHandler_get_album_art_path(a1, hint, mpris, t, k[2], size)
                 ELSE a1
       IN [art |-> a2,
           image |-> IF a2.ret # NoPath THEN PathImage(a2.ret) ELSE NoImage,
           fetched |-> IF a2 = a1 THEN a1.fetched ELSE a1.fetched + a2.fetched]

\* NotificationProcessor.handle_spotify_notification
handle_spotify_notification(self, image, hint, mpris, t, k, size) ==
  IF hint.kind = "none" THEN [art |-> Fresh(self), image |-> image, fetched |-> 0]
  ELSE LET a3 == SpotifyHandler_get_album_art_path(self, hint, mpris, t, k[3], size)
       IN [art |-> a3,
           image |-> IF a3.ret # NoPath THEN PathImage(a3.ret) ELSE RawImage(hint),
           fetched |-> a3.fetched]

\* the image part of NotificationProcessor.process_notification_data
process_image(self, app, hint, mpris, t, k, size) ==
  LET first == get_icon_and_image(self, app, hint, mpris, t, k, size)
  IN IF app # "spotify" THEN first
     ELSE LET second == handle_spotify_notification(first.art, first.image, hint, mpris, t, k, size)
          IN [second EXCEPT !.fetched = first.fetched + second.fetched]

\* a notification arrives; k tells for each of the three places that may
\* download whether the server answers there, the last of them being the
\* download of the hint's URL by handle_spotify_notification
Ingest ==
  \E app \in Apps, hint \in Hints, mpris \in 0..MaxUrl,
     k \in [1..3 -> {0, 1}], size \in FileSizes :
    LET r == process_image(CurrentArt, app, hint, mpris, now, k, size)
    IN StoreArt("ingest", hint.url, k[3],
                [r.art EXCEPT !.ret = r.image, !.fetched = r.fetched])

NextIngest ==
  \/ Ingest
  \/ Restart
  \/ Tick

SpecIngest == Init /\ [][NextIngest]_vars

\* C29: the image of a record produced by ingestion is None, or it is the
\* path of a file of the cache directory; it is never the string the
\* notification supplied.
C29_ImageIsCachedFileOrNone ==
  lastOp = "ingest"
    => \/ ret[1] = NoImage
       \/ /\ ret[1].kind = "path"
          /\ ret[1].value \in DOMAIN album_art_dir

\* ------------------------------------------------- notification_utils.py
\* the 'urgency' entry of the hints: missing, an integer, a string, or a
\* value that cannot be a dict key
UrgencyValues ==
  {[kind |-> "missing", value |-> 0], [kind |-> "str", value |-> 0],
   [kind |-> "list", value |-> 0]}
    \cup {[kind |-> "int", value |-> v] : v \in 0..MaxUrgency}
\* the hints argument: None or an empty mapping, or a mapping with entries
HintsArgs ==
  {[dict |-> FALSE, urgency |-> [kind |-> "missing", value |-> 0]]}
    \cup {[dict |-> TRUE, urgency |-> u] : u \in UrgencyValues}

\* the mapping of the function's docstring
get_urgency_docstring(hints) ==
  IF ~hints.dict \/ hints.urgency.kind # "int" THEN "normal"
  ELSE IF hints.urgency.value = 0 THEN "low"
  ELSE IF hints.urgency.value = 2 THEN "high"
  ELSE "normal"

\* get_urgency(hints)
get_urgency(hints) ==
  IF ~hints.dict THEN "normal"
  ELSE IF hints.urgency.kind = "missing" THEN "normal"
  ELSE IF hints.urgency.kind = "list" THEN "normal"
  ELSE IF hints.urgency.kind = "int" /\ hints.urgency.value \in DOMAIN URGENCY_LEVELS
       THEN URGENCY_LEVELS[hints.urgency.value]
       ELSE "normal"

\* the records of successive notifications, each with the hints it came with
\* and the urgency process_notification_data gave it
Urgency ==
  /\ Len(ret) < MaxCounter
  /\ \E hints \in HintsArgs :
       ret' = Append(ret, [hints |-> hints, urgency |-> get_urgency(hints)])
  /\ lastOp' = "urgency"
  /\ UNCHANGED <<notifications, last_update, cache_file, now, reaper_wake, dirty,
                 arg, trimmed, io, pub, removed, stepVars, imageVars, retryVars, raceVars>>

NextUrgency ==
  \/ Urgency

SpecUrgency == Init /\ [][NextUrgency]_vars

ActionStrings == {"a", "b", "c"}
\* the actions argument: None, or a list of strings
NoActions == [given |-> FALSE, list |-> <<>>]
ActionArgs ==
  {NoActions} \cup
  {[given |-> TRUE, list |-> l] :
     l \in UNION {[1..n -> ActionStrings] : n \in 0..MaxActions}}

\* the pairing that keeps a trailing element, with an empty label
RECURSIVE PairsFrom_pad(_, _)
PairsFrom_pad(list, i) ==
  IF i > Len(list) THEN <<>>
  ELSE IF i + 1 <= Len(list)
       THEN <<[notification_id |-> list[i], label |-> list[i + 1]]>> \o PairsFrom_pad(list, i + 2)
       ELSE <<[notification_id |-> list[i], label |-> ""]>>

\* for i in range(0, len(actions), 2): if i + 1 < len(actions): append
\* (indices from 1 here)
RECURSIVE PairsFrom(_, _)
PairsFrom(list, i) ==
  IF i > Len(list) THEN <<>>
  ELSE IF i + 1 <= Len(list)
       THEN <<[notification_id |-> list[i], label |-> list[i + 1]]>> \o PairsFrom(list, i + 2)
       ELSE PairsFrom(list, i + 2)

\* the function that keeps a trailing element
process_actions_pad(actions) ==
  IF actions.given /\ actions.list # <<>> THEN PairsFrom_pad(actions.list, 1) ELSE <<>>

\* process_actions(actions)
process_actions(actions) ==
  IF actions.given /\ actions.list # <<>> THEN PairsFrom(actions.list, 1) ELSE <<>>

\* a notification with the flat list `actions` is processed
Actions ==
  /\ \E actions \in ActionArgs :
       /\ arg' = actions
       /\ ret' = process_actions(actions)
  /\ lastOp' = "actions"
  /\ UNCHANGED <<notifications, last_update, cache_file, now, reaper_wake, dirty,
                 trimmed, io, pub, removed, stepVars, imageVars, retryVars, raceVars>>

NextActions ==
  \/ Actions

SpecActions == Init /\ [][NextActions]_vars

\* C31: the actions of a record made from a flat list of n strings are the
\* n \div 2 pairs (list[2k-1], list[2k]), k = 1.., in order (the list counted
\* from 1); a trailing unpaired string is dropped, and an empty or missing
\* list gives no actions.
C31_ActionsPaired ==
  lastOp = "actions"
    => /\ Len(ret) = Len(arg.list) \div 2
       /\ \A k \in 1..Len(ret) :
            ret[k] = [notification_id |-> arg.list[2 * k - 1], label |-> arg.list[2 * k]]
       /\ ~arg.given => ret = <<>>

\* a list of three strings gave one pair
C31_Witness ==
  /\ lastOp = "actions"
  /\ Len(arg.list) = 3
  /\ ret = <<[notification_id |-> arg.list[1], label |-> arg.list[2]]>>

\* ------------------------- notification_processor.py: the value of an id
\* 4294967295 in the code
UINT32_MAX == 2 ^ IdBits - 1
Texts == 0..MaxText
\* int.from_bytes(md5(f"{app_name}{summary}{body}{counter}").digest()[:4]):
\* a value of IdBits bits that the text and the counter determine
Md5Prefix(text, counter) == (5 * text + 3 * counter) % (2 ^ IdBits)

\* NotificationProcessor.generate_notification_id with the counter's test
\* and reset, lines 70-72
generate_notification_id_wrap(text, counter) ==
  LET c == IF counter >= UINT32_MAX THEN 1 ELSE counter
  IN [id |-> Md5Prefix(text, c), counter |-> c + 1]

\* a notification without replaces_id is given an id, which Notify returns
GenerateId ==
  /\ \E text \in Texts :
       LET g == generate_notification_id_wrap(text, notification_id_counter)
       IN /\ notification_id_counter' = g.counter
          /\ ret' = <<g.id>>
          /\ arg' = text
  /\ lastOp' = "generate"
  /\ UNCHANGED <<notifications, last_update, cache_file, now, reaper_wake, dirty,
                 trimmed, io, pub, removed, pc, current_time, invoked, imageVars, retryVars, raceVars>>

NextId ==
  \/ GenerateId

SpecId == Init /\ [][NextId]_vars

\* C32: an id generated for a notification and returned by Notify is an
\* unsigned value of the id width and is never the reserved value 0.
C32_GeneratedIdNotZero ==
  lastOp = "generate" => ret[1] \in 1..UINT32_MAX

\* C33: when a sweep of the reaper ends and the last call the inbound thread
\* made during it was an Add whose record is in the collection (not evicted
\* for capacity) and is not expired at that time, the record is in the
\* collection after the sweep, exactly once.
C33_AddSurvivesSweep ==
  [][(/\ pc = "l161"
      /\ pc' = "sleep"
      /\ lastOp = "add"
      /\ \E i \in 1..Len(notifications) :
            /\ notifications[i].notification_id = arg
            /\ ~Expired(notifications[i], now))
       => Cardinality({i \in 1..Len(notifications') :
                         notifications'[i].notification_id = arg}) = 1]_vars

\* C34: when a sweep of the reaper ends and the last call the inbound thread
\* made during it was a Remove(id) or a Clear(), no record of that id, or no
\* record at all, is in the collection.
C34_RemovedStaysRemoved ==
  [][(/\ pc = "l161"
      /\ pc' = "sleep")
       => /\ lastOp = "remove" => ~HasId(notifications', arg)
          /\ lastOp = "clear" => notifications' = <<>>]_vars

\* C35: the snapshot file is absent or holds the complete serialisation of
\* a list that a save wrote; it is never empty or partly written.
C35_SnapshotComplete ==
  cache_file.kind \in {"absent", "list"}

\* C36: an Add discards no record that is not expired unless the records
\* that are not expired, with the new one, are more than MAX_NOTIFICATIONS:
\* the expired records go first.
C36_SweepBeforeTrim ==
  [][lastOp' = "add"
       => LET live == {i \in 1..Len(notifications) : ~Expired(notifications[i], now)}
          IN Cardinality(live) + 1 <= MAX_NOTIFICATIONS
               => \A i \in live : \E j \in 1..Len(notifications') :
                    notifications'[j] = notifications[i]]_vars

\* C37: a List at a time when no record is expired and the count is within
\* MAX_NOTIFICATIONS returns the collection and leaves it, the snapshot file
\* and the last-publish time as they were; it neither saves nor publishes.
C37_QuiescentListNoop ==
  [][(/\ lastOp' = "list"
      /\ Len(notifications) <= MAX_NOTIFICATIONS
      /\ \A i \in 1..Len(notifications) : ~Expired(notifications[i], now))
       => /\ notifications' = notifications
          /\ ret' = notifications
          /\ cache_file' = cache_file
          /\ last_update' = last_update
          /\ io' = "none"
          /\ pub' = FALSE]_vars

\* a List of a non-empty collection of live records, at a time when the gate
\* would have let a publish through and the snapshot file differs from the
\* collection
C37_Witness ==
  /\ lastOp = "list"
  /\ notifications # <<>>
  /\ ret = notifications
  /\ io = "none"
  /\ now - last_update >= UPDATE_COOLDOWN
  /\ cache_file # JsonFile(notifications)

\* C38: under fair scheduling of the reaper thread and of the clock, a
\* collection that holds an expired record comes to hold none, whether or
\* not any call arrives from outside, and the reaper ticks again and again,
\* also after ticks whose save failed.
C38_ExpiredEventuallySwept ==
  /\ (\E i \in 1..Len(notifications) : Expired(notifications[i], now))
       ~> (\A i \in 1..Len(notifications) : ~Expired(notifications[i], now))
  /\ []<><<ReaperTick>>_vars

\* a tick of the reaper that swept an expired record and whose save failed
C38_Witness ==
  /\ lastOp = "reaper"
  /\ removed > 0
  /\ io = "fail"

\* C39: CloseNotification(id), for an id that Notify returned and whose
\* record is still in the store, leaves no record of that id in the store.
C39_CloseRemoves ==
  [][(/\ lastOp' \in {"close", "dbus_close"}
      /\ \E i \in 1..Len(notifications) : notifications[i].id = arg')
       => \A j \in 1..Len(notifications') : notifications'[j].id # arg']_vars

\* C40: the function is called at most max_retries times and not again
\* after a call that returned or raised an exception that is not listed; the
\* wrapper returns the result of the call that returned, lets an unlisted
\* exception through, and after max_retries listed failures raises the last
\* of them; it has slept once between every two calls and not after the last
\* one, the k-th time for delay * backoff^(k-1).
C40_RetryBounded ==
  LET w == wrapper
      n == Len(w.calls)
  IN /\ n <= w.max_retries
     /\ \A k \in 1..(n - 1) : w.calls[k] = "listed"
     /\ w.outcome = "returned" => n >= 1 /\ w.calls[n] = "ok"
     /\ (w.pc = "done" /\ n >= 1)
          => /\ Len(w.slept) = n - 1
             /\ w.calls[n] = "ok"
                  => w.outcome = "returned" /\ w.value = [kind |-> "result", call |-> n]
             /\ w.calls[n] = "other"
                  => w.outcome = "raised" /\ w.value = [kind |-> "other", call |-> n]
             /\ w.calls[n] = "listed"
                  => /\ n = w.max_retries
                     /\ w.outcome = "raised"
                     /\ w.value = [kind |-> "listed", call |-> n]
     /\ w.pc = "loop" => Len(w.slept) = n
     /\ \A k \in 1..Len(w.slept) : w.slept[k] = w.delay * w.backoff ^ (k - 1)

\* three listed failures in a row with max_retries = 3: two sleeps, the
\* second twice as long, and the third exception raised
C40_Witness ==
  /\ wrapper.pc = "done"
  /\ wrapper.max_retries = 3
  /\ wrapper.backoff = 2
  /\ wrapper.outcome = "raised"
  /\ wrapper.value = [kind |-> "listed", call |-> 3]
  /\ Len(wrapper.slept) = 2

====
